---------------------------- MODULE Spec2Model ----------------------------
(***************************************************************************)
(* NL detection result schema (server/lib/nl/detection.py) and the         *)
(* classification resolver that derives Detection.query_type from the      *)
(* list of classifiers that fired.                                         *)
(*                                                                         *)
(* The schema is a set of plain (non-frozen) dataclasses: the generated    *)
(* constructor stores its arguments as given and every field stays         *)
(* assignable.  The resolver itself is not part of detection.py; it is     *)
(* modelled from section 4.2 of the specification over the                 *)
(* RANKED_CLASSIFICATION_TYPES list that detection.py declares.            *)
(***************************************************************************)
EXTENDS Integers, Sequences, FiniteSets, TLC

VARIABLES
  places_detected,  \* the PlaceDetection built last, or None
  svs_detected,     \* the SVDetection built last, or None
  classifier,       \* the NLClassifier built last, or None
  detections,       \* the Detection instances that exist, by identity (index)
  resolved          \* the instances whose query_type the resolver wrote last

vars == <<places_detected, svs_detected, classifier, detections, resolved>>

\* No instance built yet.
None == [class |-> "NoneType"]

-----------------------------------------------------------------------------
(* Bounds of the model.                                                    *)

MaxClassifications == 3   \* length of a classifications list given to the resolver
MaxDetections == 2        \* Detection instances alive at once
MaxAssembled == 1         \* length of a classifications list in the assembly model
MaxPlacesFound == 2       \* length of PlaceDetection.places_found
MaxSVs == 2               \* lengths of SVDetection.sv_dcids and sv_scores
MaxAttributes == 2        \* length of NLClassifier.attributes

\* All sequences over S of length at most n.
SeqsUpTo(S, n) == UNION {[1..k -> S] : k \in 0..n}

Range(s) == {s[i] : i \in DOMAIN s}

-----------------------------------------------------------------------------
(* Enumerations.                                                           *)

\* class ClassificationType(IntEnum): member name -> value.
ClassificationTypeValue ==
  ("OTHER" :> 0) @@ ("SIMPLE" :> 1) @@ ("RANKING" :> 2) @@ ("TEMPORAL" :> 3) @@
  ("CONTAINED_IN" :> 4) @@ ("CORRELATION" :> 5) @@ ("CLUSTERING" :> 6) @@
  ("COMPARISON" :> 7) @@ ("TIME_DELTA" :> 8) @@ ("EVENT" :> 9) @@
  ("OVERVIEW" :> 10) @@ ("UNKNOWN" :> 11)

ClassificationType == DOMAIN ClassificationTypeValue

\* The ranked types sorted by enum value instead of by the declared preference.
RankedByEnumValue ==
  <<"SIMPLE", "RANKING", "CONTAINED_IN", "CORRELATION", "COMPARISON",
    "TIME_DELTA", "EVENT">>

\* The declared list with its last entry lost.
RankedWithoutLast ==
  <<"SIMPLE", "COMPARISON", "CONTAINED_IN", "RANKING", "CORRELATION",
    "TIME_DELTA">>

\* "The supported classifications in order. Later entry is preferred."
RANKED_CLASSIFICATION_TYPES ==
  <<"SIMPLE", "COMPARISON", "CONTAINED_IN", "RANKING", "CORRELATION",
    "TIME_DELTA", "EVENT">>

\* A default of OTHER in place of UNKNOWN.
DefaultOther == "OTHER"

\* Detection.query_type: ClassificationType = ClassificationType.UNKNOWN
DefaultQueryType == "UNKNOWN"

\* The concrete subclasses of ClassificationAttributes.
ClassificationAttributes ==
  {"SimpleClassificationAttributes", "RankingClassificationAttributes",
   "ComparisonClassificationAttributes", "TemporalClassificationAttributes",
   "ContainedInClassificationAttributes", "ClusteringClassificationAttributes",
   "CorrelationClassificationAttributes", "EventClassificationAttributes",
   "OverviewClassificationAttributes", "TimeDeltaClassificationAttributes"}

\* The attribute classes written for a classification type (OTHER and
\* UNKNOWN have none).
AttributesOf(type) ==
  CASE type = "SIMPLE" -> {"SimpleClassificationAttributes"}
    [] type = "RANKING" -> {"RankingClassificationAttributes"}
    [] type = "COMPARISON" -> {"ComparisonClassificationAttributes"}
    [] type = "TEMPORAL" -> {"TemporalClassificationAttributes"}
    [] type = "CONTAINED_IN" -> {"ContainedInClassificationAttributes"}
    [] type = "CLUSTERING" -> {"ClusteringClassificationAttributes"}
    [] type = "CORRELATION" -> {"CorrelationClassificationAttributes"}
    [] type = "EVENT" -> {"EventClassificationAttributes"}
    [] type = "OVERVIEW" -> {"OverviewClassificationAttributes"}
    [] type = "TIME_DELTA" -> {"TimeDeltaClassificationAttributes"}
    [] OTHER -> {}

-----------------------------------------------------------------------------
(* Dataclass constructors: each stores its arguments, unvalidated.         *)

Place(dcid) == [dcid |-> dcid, name |-> dcid, place_type |-> "Place"]

\* PlaceDetection(query_original, query_without_place_substr, places_found,
\*                main_place, using_default_place, using_from_context)
PlaceDetection(q, q_wo_place, found, main, use_default, from_ctx) ==
  [query_original |-> q,
   query_without_place_substr |-> q_wo_place,
   places_found |-> found,
   main_place |-> main,
   using_default_place |-> use_default,
   using_from_context |-> from_ctx]

SVDetection(query, sv_dcids, sv_scores, svs_to_sentences) ==
  [query |-> query, sv_dcids |-> sv_dcids, sv_scores |-> sv_scores,
   svs_to_sentences |-> svs_to_sentences]

NLClassifier(type, attributes) == [type |-> type, attributes |-> attributes]

\* Detection(original_query, cleaned_query, places_detected, svs_detected,
\*           classifications, query_type)
Detection(original, cleaned, places, svs, classifications, query_type) ==
  [original_query |-> original,
   cleaned_query |-> cleaned,
   places_detected |-> places,
   svs_detected |-> svs,
   classifications |-> classifications,
   query_type |-> query_type]

-----------------------------------------------------------------------------
(* Classification resolver (specification, section 4.2).                   *)

\* A resolver that keeps the type of the last ranked entry of the list.
LastRankedEntry(classifications) ==
  LET ranked == {i \in DOMAIN classifications :
                   classifications[i].type \in Range(RANKED_CLASSIFICATION_TYPES)}
  IN IF ranked = {} THEN DefaultQueryType
     ELSE classifications[CHOOSE i \in ranked : \A j \in ranked : j <= i].type

\* Scan the preference order from its first entry on, keeping the last type
\* found among the classifications; query_type is the running result.
RECURSIVE ScanRanked(_, _, _)
ScanRanked(i, classifications, query_type) ==
  IF i > Len(RANKED_CLASSIFICATION_TYPES) THEN query_type
  ELSE ScanRanked(i + 1, classifications,
         IF \E k \in DOMAIN classifications :
              classifications[k].type = RANKED_CLASSIFICATION_TYPES[i]
         THEN RANKED_CLASSIFICATION_TYPES[i]
         ELSE query_type)

\* The scan starts from the default the query_type field is declared with,
\* which is what remains when no ranked type is present.
ResolveQueryType(classifications) ==
  ScanRanked(1, classifications, DefaultQueryType)

-----------------------------------------------------------------------------
(* Inputs the collaborators supply.                                        *)

Queries == {"top counties in california", "earthquakes in japan"}

CleanedQueries == {"top counties in"}

PlaceIds == {"geoId/06", "country/JPN", "Earth"}

SVIds == {"Count_Person", "Count_EarthquakeEvent"}

\* Scores in tenths.
Scores == {9, 5}

Sentences == {<<"population">>}

\* A place detection and an SV detection as the collaborators hand them over.
SomePlaces ==
  PlaceDetection("top counties in california", "top counties in",
                 <<"geoId/06">>, Place("geoId/06"), FALSE, FALSE)

SomeSVs ==
  SVDetection("top counties in", <<"Count_Person">>, <<9>>,
              [sv \in {"Count_Person"} |-> <<"population">>])

\* A classifier that fired, with no attributes; a RANKING or an EVENT
\* classifier may also carry one attribute object of its class.
FiredClassifiers ==
  {NLClassifier(t, <<>>) : t \in ClassificationType}
    \cup UNION {{NLClassifier(t, <<a>>) : a \in AttributesOf(t)} :
                  t \in {"RANKING", "EVENT"}}

ResolverInputs == SeqsUpTo(FiredClassifiers, MaxClassifications)

AssembledInputs ==
  SeqsUpTo({NLClassifier(t, <<>>) : t \in ClassificationType}, MaxAssembled)

-----------------------------------------------------------------------------
(* Operations.                                                             *)

NewPlaceDetection(found, main, use_default, from_ctx) ==
  /\ places_detected' =
       PlaceDetection("top counties in california", "top counties in",
                      found, main, use_default, from_ctx)
  /\ UNCHANGED <<svs_detected, classifier, detections, resolved>>

NewSVDetection(sv_dcids, sv_scores, svs_to_sentences) ==
  /\ svs_detected' =
       SVDetection("top counties in", sv_dcids, sv_scores, svs_to_sentences)
  /\ UNCHANGED <<places_detected, classifier, detections, resolved>>

NewNLClassifier(type, attributes) ==
  /\ classifier' = NLClassifier(type, attributes)
  /\ UNCHANGED <<places_detected, svs_detected, detections, resolved>>

\* Detection(...): a new instance; the ones that exist are not touched.
NewDetection(original, cleaned, places, svs, classifications, query_type) ==
  /\ Len(detections) < MaxDetections
  /\ detections' =
       Append(detections,
              Detection(original, cleaned, places, svs, classifications,
                        query_type))
  /\ UNCHANGED <<places_detected, svs_detected, classifier, resolved>>

\* detection.query_type = <resolver's result over detection.classifications>
Resolve(i) ==
  /\ detections' =
       [detections EXCEPT
          ![i].query_type = ResolveQueryType(detections[i].classifications)]
  /\ resolved' = resolved \cup {i}
  /\ UNCHANGED <<places_detected, svs_detected, classifier>>

\* detection.query_type = query_type
AssignQueryType(i, query_type) ==
  /\ detections' = [detections EXCEPT ![i].query_type = query_type]
  /\ resolved' = resolved \ {i}
  /\ UNCHANGED <<places_detected, svs_detected, classifier>>

\* detection.classifications = classifications
AssignClassifications(i, classifications) ==
  /\ detections' = [detections EXCEPT ![i].classifications = classifications]
  /\ resolved' = resolved \ {i}
  /\ UNCHANGED <<places_detected, svs_detected, classifier>>

\* detection.original_query = query
AssignOriginalQuery(i, query) ==
  /\ detections' = [detections EXCEPT ![i].original_query = query]
  /\ UNCHANGED <<places_detected, svs_detected, classifier, resolved>>

-----------------------------------------------------------------------------
(* Specifications.                                                         *)

\* Detection result assembly: instances are built, resolved and assigned to.
Init ==
  /\ places_detected = SomePlaces
  /\ svs_detected = SomeSVs
  /\ classifier = None
  /\ detections = <<>>
  /\ resolved = {}

Construct ==
  \E original \in Queries, cleaned \in CleanedQueries,
     classifications \in AssembledInputs, query_type \in ClassificationType :
    NewDetection(original, cleaned, places_detected, svs_detected,
                 classifications, query_type)

RunResolver == \E i \in DOMAIN detections : Resolve(i)

SetQueryType ==
  \E i \in DOMAIN detections, query_type \in ClassificationType :
    AssignQueryType(i, query_type)

SetClassifications ==
  \E i \in DOMAIN detections, classifications \in AssembledInputs :
    AssignClassifications(i, classifications)

SetOriginalQuery ==
  \E i \in DOMAIN detections, query \in Queries : AssignOriginalQuery(i, query)

Next ==
  \/ Construct
  \/ SetQueryType
  \/ SetClassifications
  \/ SetOriginalQuery
  \/ RunResolver

Spec == Init /\ [][Next]_vars

\* The resolver as a function: a Detection built with the default query_type
\* over any classifications list, then resolved.
InitResolve ==
  /\ places_detected = SomePlaces
  /\ svs_detected = SomeSVs
  /\ classifier = None
  /\ \E classifications \in ResolverInputs :
       detections =
         <<Detection("top counties in california", "top counties in",
                     SomePlaces, SomeSVs, classifications, DefaultQueryType)>>
  /\ resolved = {}

NextResolve == RunResolver

SpecResolve == InitResolve /\ [][NextResolve]_vars

\* Place detection results as the constructor accepts them.
InitPlace ==
  /\ places_detected = None
  /\ svs_detected = None
  /\ classifier = None
  /\ detections = <<>>
  /\ resolved = {}

NextPlace ==
  \E found \in SeqsUpTo(PlaceIds, MaxPlacesFound), main \in PlaceIds,
     use_default \in BOOLEAN, from_ctx \in BOOLEAN :
    NewPlaceDetection(found, Place(main), use_default, from_ctx)

SpecPlace == InitPlace /\ [][NextPlace]_vars

\* SV detection results as the constructor accepts them.
NextSV ==
  \E sv_dcids \in SeqsUpTo(SVIds, MaxSVs), sv_scores \in SeqsUpTo(Scores, MaxSVs),
     keys \in SUBSET SVIds :
    \E svs_to_sentences \in [keys -> Sentences] :
      NewSVDetection(sv_dcids, sv_scores, svs_to_sentences)

SpecSV == InitPlace /\ [][NextSV]_vars

\* Classifier records as the constructor accepts them.
NextClassifier ==
  \E type \in ClassificationType,
     attributes \in SeqsUpTo(ClassificationAttributes, MaxAttributes) :
    NewNLClassifier(type, attributes)

SpecClassifier == InitPlace /\ [][NextClassifier]_vars

-----------------------------------------------------------------------------
(* Properties of the resolver, under SpecResolve.                          *)

TypesIn(classifications) == {classifications[k].type : k \in DOMAIN classifications}

\* The preference order as the specification states it, lowest first.
StatedOrder ==
  <<"SIMPLE", "COMPARISON", "CONTAINED_IN", "RANKING", "CORRELATION",
    "TIME_DELTA", "EVENT">>

StatedRank(t) == CHOOSE n \in DOMAIN StatedOrder : StatedOrder[n] = t

RankedIn(classifications) == TypesIn(classifications) \cap Range(StatedOrder)

\* C1: when a ranked type is present, the resolved query_type is the present
\* type that stands latest in SIMPLE, COMPARISON, CONTAINED_IN, RANKING,
\* CORRELATION, TIME_DELTA, EVENT, whatever the enum values are; with exactly
\* one ranked type present it is that type.
C1_LatestPresentWins ==
  \A i \in resolved :
    LET present == RankedIn(detections[i].classifications)
        result == detections[i].query_type
    IN present # {} =>
         /\ result \in present
         /\ \A t \in present : StatedRank(t) <= StatedRank(result)
         /\ Cardinality(present) = 1 => present = {result}

\* COMPARISON (value 7) and RANKING (value 2) were both present and RANKING won.
C1_Witness ==
  \E i \in resolved :
    /\ RankedIn(detections[i].classifications) = {"COMPARISON", "RANKING"}
    /\ ClassificationTypeValue["COMPARISON"] > ClassificationTypeValue["RANKING"]
    /\ detections[i].query_type = "RANKING"

\* C2 as stated: with RANKING and CONTAINED_IN both present, whatever else is
\* present, the resolved query_type is RANKING.
C2_RankingWheneverWithContainedIn ==
  \A i \in resolved :
    {"RANKING", "CONTAINED_IN"} \subseteq TypesIn(detections[i].classifications)
      => detections[i].query_type = "RANKING"

\* C2 amended: with RANKING and CONTAINED_IN both present and no CORRELATION,
\* TIME_DELTA or EVENT entry, the resolved query_type is RANKING.
C2_RankingOverContainedIn ==
  \A i \in resolved :
    LET types == TypesIn(detections[i].classifications)
    IN /\ {"RANKING", "CONTAINED_IN"} \subseteq types
       /\ types \cap {"CORRELATION", "TIME_DELTA", "EVENT"} = {}
       => detections[i].query_type = "RANKING"

\* RANKING, CONTAINED_IN and a third, lower or unranked, entry: RANKING won.
C2_Witness ==
  \E i \in resolved :
    LET types == TypesIn(detections[i].classifications)
    IN /\ {"RANKING", "CONTAINED_IN"} \subseteq types
       /\ Cardinality(types) = 3
       /\ types \cap {"CORRELATION", "TIME_DELTA", "EVENT"} = {}
       /\ detections[i].query_type = "RANKING"

\* C3: with an EVENT entry present, in any position and beside any other
\* entries, the resolved query_type is EVENT.
C3_EventAlwaysWins ==
  \A i \in resolved :
    "EVENT" \in TypesIn(detections[i].classifications)
      => detections[i].query_type = "EVENT"

\* Scenario C: TIME_DELTA, EVENT, CORRELATION in this order resolved to EVENT.
C3_Witness ==
  \E i \in resolved :
    LET cls == detections[i].classifications
    IN /\ Len(cls) = 3
       /\ cls[1].type = "TIME_DELTA"
       /\ cls[2].type = "EVENT"
       /\ cls[3].type = "CORRELATION"
       /\ detections[i].query_type = "EVENT"

TypesByValue ==
  [n \in 1..Cardinality(ClassificationType) |->
     CHOOSE t \in ClassificationType : ClassificationTypeValue[t] = n - 1]

\* One attribute-less entry per type of the set, in enum-value order.
OneOfEach(types) ==
  LET Wanted(t) == t \in types
      kept == SelectSeq(TypesByValue, Wanted)
  IN [k \in DOMAIN kept |-> NLClassifier(kept[k], <<>>)]

\* Lists with the same set of types as the given one: its reorderings, each
\* entry twice, the attributes dropped, and one bare entry per type.
SameTypesAs(classifications) ==
  {[k \in DOMAIN classifications |-> classifications[p[k]]] :
     p \in Permutations(DOMAIN classifications)}
    \cup {classifications \o classifications,
          [k \in DOMAIN classifications |->
             NLClassifier(classifications[k].type, <<>>)],
          OneOfEach(TypesIn(classifications))}

\* C10: the resolved query_type depends only on the set of types present:
\* every list with the same types (reordered, with entries repeated, with
\* other attributes) resolves to the query_type this list resolved to, and so
\* does this list when resolved again.
C10_FunctionOfTypeSet ==
  \A i \in resolved :
    \A other \in SameTypesAs(detections[i].classifications) :
      /\ TypesIn(other) = TypesIn(detections[i].classifications)
      /\ ResolveQueryType(other) = detections[i].query_type

\* A resolved list with two entries of one type that differ in attributes,
\* followed by an entry of lower preference.
C10_Witness ==
  \E i \in resolved :
    LET cls == detections[i].classifications
    IN /\ Len(cls) = 3
       /\ cls[1].type = cls[2].type
       /\ cls[1].attributes # cls[2].attributes
       /\ cls[1].type = "RANKING"
       /\ cls[3].type = "COMPARISON"
       /\ detections[i].query_type = "RANKING"

-----------------------------------------------------------------------------
(* Properties of the schema's constructors and fields.                     *)

\* C5: in every Detection that exists, however it was built and assigned to,
\* query_type is the resolver's result over its own classifications.
C5_QueryTypeIsResolved ==
  \A i \in DOMAIN detections :
    detections[i].query_type = ResolveQueryType(detections[i].classifications)

\* C6: every SVDetection that exists has as many sv_dcids as sv_scores: a
\* construction with different lengths yields no SVDetection.
C6_LengthsAgree ==
  svs_detected # None =>
    Len(svs_detected.sv_dcids) = Len(svs_detected.sv_scores)

\* C7: in every NLClassifier that exists, each element of attributes is of
\* the attribute class of its type: a construction with another element is
\* rejected.
C7_AttributesMatchType ==
  classifier # None =>
    \A k \in DOMAIN classifier.attributes :
      classifier.attributes[k] \in AttributesOf(classifier.type)

\* C8: no step changes a field of a Detection that exists; a step may only
\* add a new instance.
C8_FieldsNeverChange ==
  [][\A i \in DOMAIN detections :
       /\ i \in DOMAIN detections'
       /\ detections'[i] = detections[i]]_vars

\* C9: every PlaceDetection with using_default_place and using_from_context
\* both false has the dcid of its main_place among its places_found.
C9_MainPlaceIsFound ==
  places_detected # None =>
    (/\ ~places_detected.using_default_place
     /\ ~places_detected.using_from_context
     => places_detected.main_place.dcid \in Range(places_detected.places_found))

=============================================================================
